---- MODULE Spec2Model ----
(***************************************************************************)
(* Model of student_analysis.py: the persisted dataset (students_data.json)*)
(* the in-memory subjects / students / marks of main(), the menu loop, the *)
(* prompt loop of add_record and the display / chart operations.           *)
(*                                                                         *)
(* A numpy array is modelled as a record [shape, data]: shape is <<0>> for *)
(* np.array([]) and <<rows, cols>> for a 2-D table, data is the row-major  *)
(* buffer.  A line typed at a prompt is a sequence of one-character        *)
(* strings, parsed the way int() parses it.                                *)
(***************************************************************************)
EXTENDS Integers, Sequences, FiniteSets, TLC

VARIABLES file, subjects, students, marks, pc, student_name, new_marks,
          typed, out, raised, loadedFrom, lastSaved

vars == <<file, subjects, students, marks, pc, student_name, new_marks,
          typed, out, raised, loadedFrom, lastSaved>>

\* Bounds of the exploration: choice '1' is offered while the table holds fewer
\* than MaxStudents records and the new row still fits in MaxMarks marks.
MaxStudents == 3
MaxMarks == 10

\* ------------------------------------------------------------------ numpy
\* np.array([]): one axis of length 0.
EmptyArray == [shape |-> <<0>>, data |-> <<>>]

RECURSIVE Flatten(_)
Flatten(nested) ==
    IF nested = <<>> THEN <<>> ELSE Head(nested) \o Flatten(Tail(nested))

\* np.array(list): [] gives shape (0,), a list of R lists of length C gives (R, C).
np_array(nested) ==
    IF nested = <<>> THEN EmptyArray
    ELSE [shape |-> <<Len(nested), Len(nested[1])>>, data |-> Flatten(nested)]

\* ndarray.size: the product of the axis lengths.
size(a) == IF Len(a.shape) = 1 THEN a.shape[1] ELSE a.shape[1] * a.shape[2]

\* tolist with each row cut one entry short.
tolist_short(a) ==
    IF Len(a.shape) = 1 THEN a.data
    ELSE [i \in 1..a.shape[1] |->
             SubSeq(a.data, (i - 1) * a.shape[2] + 1, i * a.shape[2] - 1)]

\* ndarray.tolist(): nested lists, one level per axis.
tolist(a) ==
    IF Len(a.shape) = 1 THEN a.data
    ELSE [i \in 1..a.shape[1] |->
             SubSeq(a.data, (i - 1) * a.shape[2] + 1, i * a.shape[2])]

\* np.vstack((a, row)) for a 2-D a whose column count is Len(row).
vstack(a, row) ==
    [shape |-> <<a.shape[1] + 1, a.shape[2]>>, data |-> a.data \o row]

\* marks[:, j]: column j of a 2-D table.
column(a, j) == [i \in 1..a.shape[1] |-> a.data[(i - 1) * a.shape[2] + j]]

RECURSIVE SeqSum(_)
SeqSum(s) == IF s = <<>> THEN 0 ELSE Head(s) + SeqSum(Tail(s))

\* A mean that divides by one too many.
mean_off(s) == [num |-> SeqSum(s), den |-> Len(s) + 1]

\* np.mean of a 1-D sequence: sum / count, kept as the exact fraction
\* (count 0 is numpy's nan).
mean(s) == [num |-> SeqSum(s), den |-> Len(s)]

\* Shown in place of a number when the mean is nan.
NaN == -1

\* f"{x:.2f}" of a mean, in hundredths.
fmt2(m) ==
    IF m.den = 0 THEN NaN
    ELSE (2 * 100 * m.num + m.den) \div (2 * m.den)

\* ------------------------------------------------------------------ int()
DigitVal == ("0" :> 0) @@ ("1" :> 1) @@ ("2" :> 2) @@ ("3" :> 3) @@ ("4" :> 4)
            @@ ("5" :> 5) @@ ("6" :> 6) @@ ("7" :> 7) @@ ("8" :> 8) @@ ("9" :> 9)

Unsigned(text) == IF text # <<>> /\ text[1] \in {"-", "+"} THEN Tail(text) ELSE text

\* int(text) does not raise ValueError.
IsIntText(text) ==
    /\ Unsigned(text) # <<>>
    /\ \A i \in 1..Len(Unsigned(text)) : Unsigned(text)[i] \in DOMAIN DigitVal

RECURSIVE DigitsValue(_)
DigitsValue(ds) ==
    IF ds = <<>> THEN 0
    ELSE 10 * DigitsValue(SubSeq(ds, 1, Len(ds) - 1)) + DigitVal[ds[Len(ds)]]

\* int(text) for a text int() accepts.
IntOf(text) ==
    IF text[1] = "-" THEN 0 - DigitsValue(Unsigned(text)) ELSE DigitsValue(Unsigned(text))

\* The range test with its upper limit off by one.
AcceptMark_upto101(text) == IsIntText(text) /\ 0 <= IntOf(text) /\ IntOf(text) <= 101

\* The try / if of add_record: the typed line becomes a mark.
AcceptMark(text) == IsIntText(text) /\ 0 <= IntOf(text) /\ IntOf(text) <= 100

\* ------------------------------------------------------------------ file
Fields == {"subjects", "students", "marks"}

DefaultSubjects == <<"English", "Maths", "Science", "Social", "History">>

\* No students_data.json.
Absent == [kind |-> "absent", has |-> {}, subjects |-> <<>>, students |-> <<>>,
           marks |-> <<>>]

\* Content json.load rejects (also the empty or cut-off file a failed write leaves).
Garbage == [kind |-> "garbage", has |-> {}, subjects |-> <<>>, students |-> <<>>,
            marks |-> <<>>]

\* A dump that leaves the 'students' key out.
json_dump_nostudents(subj, studs, m) ==
    [kind |-> "json", has |-> {"subjects", "marks"}, subjects |-> subj,
     students |-> <<>>, marks |-> tolist(m)]

\* json.dump({'subjects': ..., 'students': ..., 'marks': marks.tolist()}).
json_dump(subj, studs, m) ==
    [kind |-> "json", has |-> Fields, subjects |-> subj, students |-> studs,
     marks |-> tolist(m)]

\* What save_data can do to the file: written, open() raised, or the write
\* raised after open(..., 'w') had truncated the file.
SaveOutcomes == {"ok", "open_failed", "write_failed"}

\* A save that writes the newest record alone instead of the whole dataset.
save_data_lastonly(old, subj, studs, m, outcome) ==
    CASE outcome = "ok" ->
           [kind |-> "json", has |-> Fields, subjects |-> subj,
            students |-> IF studs = <<>> THEN <<>> ELSE <<studs[Len(studs)]>>,
            marks |-> IF tolist(m) = <<>> THEN <<>>
                      ELSE <<tolist(m)[Len(tolist(m))]>>]
      [] outcome = "open_failed" -> old
      [] outcome = "write_failed" -> Garbage

save_data(old, subj, studs, m, outcome) ==
    CASE outcome = "ok" -> json_dump(subj, studs, m)
      [] outcome = "open_failed" -> old
      [] outcome = "write_failed" -> Garbage

NoSave == [set |-> FALSE, subjects |-> <<>>, students |-> <<>>, marks |-> EmptyArray]

Saved(subj, studs, m) == [set |-> TRUE, subjects |-> subj, students |-> studs, marks |-> m]

NoError == [exc |-> "none", in |-> "none"]

NoOutput == [op |-> "none", msg |-> "", rows |-> <<>>]

NoText == <<>>

\* ------------------------------------------------------------------ inputs
NameInputs == {"Alice", "Bob"}

Text0 == <<"0">>
Text100 == <<"1", "0", "0">>
TextMinus1 == <<"-", "1">>
Text101 == <<"1", "0", "1">>
TextAbc == <<"a", "b", "c">>

MarkInputs == {Text0, Text100, TextMinus1, Text101, TextAbc}

\* Files found at first start: none, an unreadable one, documents without the
\* expected fields, and datasets with no student yet.
EmptyDataset(subj) ==
    [kind |-> "json", has |-> Fields, subjects |-> subj, students |-> <<>>,
     marks |-> <<>>]

InitialFiles ==
    {Absent, Garbage,
     [kind |-> "json", has |-> {}, subjects |-> <<>>, students |-> <<>>, marks |-> <<>>],
     [kind |-> "json", has |-> {"subjects", "students"}, subjects |-> DefaultSubjects,
      students |-> <<>>, marks |-> <<>>],
     EmptyDataset(<<>>), EmptyDataset(<<"English", "Maths">>),
     EmptyDataset(DefaultSubjects)}

Init ==
    /\ file \in InitialFiles
    /\ subjects = <<>>
    /\ students = <<>>
    /\ marks = EmptyArray
    /\ pc = "start"
    /\ student_name = ""
    /\ new_marks = <<>>
    /\ typed = NoText
    /\ out = NoOutput
    /\ raised = NoError
    /\ loadedFrom = "none"
    /\ lastSaved = NoSave

\* ------------------------------------------------------------------ actions
\* main() up to the first menu prompt: initialize_data.
Start ==
    /\ pc = "start"
    /\ loadedFrom' = file.kind
    /\ UNCHANGED <<student_name, new_marks, typed, out>>
    /\ \/ /\ file.kind = "json" /\ file.has = Fields
          /\ subjects' = file.subjects
          /\ students' = file.students
          /\ marks' = np_array(file.marks)
          /\ pc' = "menu"
          /\ UNCHANGED <<file, raised, lastSaved>>
       \/ /\ file.kind = "json" /\ file.has # Fields
          /\ pc' = "crashed"
          /\ raised' = [exc |-> "KeyError", in |-> "initialize_data"]
          /\ UNCHANGED <<file, subjects, students, marks, lastSaved>>
       \/ /\ file.kind \in {"absent", "garbage"}
          /\ \E o \in SaveOutcomes :
                /\ file' = save_data(file, DefaultSubjects, <<>>, EmptyArray, o)
                /\ IF o = "ok"
                   THEN /\ subjects' = DefaultSubjects
                        /\ students' = <<>>
                        /\ marks' = EmptyArray
                        /\ pc' = "menu"
                        /\ lastSaved' = Saved(DefaultSubjects, <<>>, EmptyArray)
                        /\ UNCHANGED raised
                   ELSE /\ pc' = "crashed"
                        /\ raised' = [exc |-> "OSError", in |-> "initialize_data"]
                        /\ UNCHANGED <<subjects, students, marks, lastSaved>>

\* add_record, line 61: the row joins the table.
add_row(m, row) == IF size(m) # 0 THEN vstack(m, row) ELSE np_array(<<row>>)

\* add_record, lines 60-64: append the name (in place, so main's list grows
\* too), build the new table, save, report and return it; when save_data
\* raises, main's marks is never rebound.
FinishAdd(name, row) ==
    /\ students' = Append(students, name)
    /\ student_name' = ""
    /\ new_marks' = <<>>
    /\ \E o \in SaveOutcomes :
          /\ file' = save_data(file, subjects, students', add_row(marks, row), o)
          /\ IF o = "ok"
             THEN /\ marks' = add_row(marks, row)
                  /\ pc' = "menu"
                  /\ lastSaved' = Saved(subjects, students', marks')
                  /\ out' = [op |-> "add", msg |-> "Record added successfully.",
                             rows |-> <<>>]
                  /\ UNCHANGED raised
             ELSE /\ UNCHANGED marks
                  /\ pc' = "crashed"
                  /\ raised' = [exc |-> "OSError", in |-> "add_record"]
                  /\ out' = NoOutput
                  /\ UNCHANGED lastSaved

\* Choice '1' and the answer to "Enter student name: ".  With no subject the
\* prompt loop has nothing to ask and add_record runs to its end.
ChooseAdd(name) ==
    /\ pc = "menu"
    /\ Len(students) < MaxStudents
    /\ (Len(students) + 1) * Len(subjects) <= MaxMarks
    /\ typed' = NoText
    /\ loadedFrom' = "none"
    /\ UNCHANGED subjects
    /\ IF subjects = <<>>
       THEN FinishAdd(name, <<>>)
       ELSE /\ pc' = "prompt"
            /\ student_name' = name
            /\ new_marks' = <<>>
            /\ out' = NoOutput
            /\ UNCHANGED <<file, students, marks, raised, lastSaved>>

\* One answer to "Enter mark for <subject> (0-100): ", the subject being
\* subjects[Len(new_marks) + 1].
EnterMark(text) ==
    /\ pc = "prompt"
    /\ typed' = text
    /\ UNCHANGED <<subjects, loadedFrom>>
    /\ IF ~IsIntText(text)
       THEN /\ out' = [op |-> "reject", msg |-> "Please enter a valid integer.",
                       rows |-> <<>>]
            /\ UNCHANGED <<file, students, marks, pc, student_name, new_marks,
                           raised, lastSaved>>
       ELSE IF ~AcceptMark(text)
       THEN /\ out' = [op |-> "reject", msg |-> "Mark should be between 0 and 100.",
                       rows |-> <<>>]
            /\ UNCHANGED <<file, students, marks, pc, student_name, new_marks,
                           raised, lastSaved>>
       ELSE IF Len(new_marks) + 1 < Len(subjects)
       THEN /\ new_marks' = Append(new_marks, IntOf(text))
            /\ out' = NoOutput
            /\ UNCHANGED <<file, students, marks, pc, student_name, raised, lastSaved>>
       ELSE FinishAdd(student_name, Append(new_marks, IntOf(text)))

Min(a, b) == IF a < b THEN a ELSE b

\* zip(students, marks): pairs up to the shorter of the two.
zip_rows(studs, m) ==
    [i \in 1..Min(Len(studs), Len(tolist(m))) |->
        [name |-> studs[i], values |-> tolist(m)[i]]]

\* The table display_results prints: one line per pair, with np.mean of the row.
display_rows(studs, m) ==
    [i \in 1..Len(zip_rows(studs, m)) |->
        [name |-> zip_rows(studs, m)[i].name,
         values |-> zip_rows(studs, m)[i].values,
         avg |-> mean(zip_rows(studs, m)[i].values),
         shown |-> fmt2(mean(zip_rows(studs, m)[i].values))]]

\* np.mean(marks, axis=0) with the label plt.text puts on each bar.
subject_averages(subj, m) ==
    [j \in 1..m.shape[2] |->
        [name |-> subj[j], values |-> column(m, j), avg |-> mean(column(m, j)),
         shown |-> fmt2(mean(column(m, j)))]]

\* The series analyze_trend plots, one per subject.
trend_series(subj, m) ==
    [j \in 1..Len(subj) |->
        [name |-> subj[j], values |-> IF size(m) # 0 THEN column(m, j) ELSE <<>>]]

MenuStep ==
    /\ pc = "menu"
    /\ typed' = NoText
    /\ loadedFrom' = "none"
    /\ UNCHANGED <<file, subjects, students, marks, student_name, new_marks,
                   raised, lastSaved>>

\* Choice '2'.
Display ==
    /\ MenuStep
    /\ pc' = "menu"
    /\ out' = IF students = <<>>
              THEN [op |-> "display", msg |-> "No data available.", rows |-> <<>>]
              ELSE [op |-> "display", msg |-> "Student Results:",
                    rows |-> display_rows(students, marks)]

\* Choice '3'.
Trend ==
    /\ MenuStep
    /\ pc' = "menu"
    /\ out' = IF Len(students) < 2
              THEN [op |-> "trend", msg |-> "Not enough data to analyze trends.",
                    rows |-> <<>>]
              ELSE [op |-> "trend", msg |-> "Trend of Marks by Subject",
                    rows |-> trend_series(subjects, marks)]

\* Choice '4'.
Compare ==
    /\ MenuStep
    /\ pc' = "menu"
    /\ out' = IF size(marks) = 0
              THEN [op |-> "compare", msg |-> "No data available for comparison.",
                    rows |-> <<>>]
              ELSE [op |-> "compare", msg |-> "Average Performance by Subject",
                    rows |-> subject_averages(subjects, marks)]

\* Any other line at the menu.
InvalidChoice ==
    /\ MenuStep
    /\ pc' = "menu"
    /\ out' = [op |-> "invalid", msg |-> "Invalid choice. Please try again.",
               rows |-> <<>>]

\* Choice '5'.
Exit ==
    /\ MenuStep
    /\ pc' = "exited"
    /\ out' = NoOutput

\* The program is run again: a new process, the file as the last one left it.
Restart ==
    /\ pc \in {"exited", "crashed"}
    /\ pc' = "start"
    /\ subjects' = <<>>
    /\ students' = <<>>
    /\ marks' = EmptyArray
    /\ student_name' = ""
    /\ new_marks' = <<>>
    /\ typed' = NoText
    /\ out' = NoOutput
    /\ raised' = NoError
    /\ loadedFrom' = "none"
    /\ UNCHANGED <<file, lastSaved>>

AddRecord == \E name \in NameInputs : ChooseAdd(name)

TypeMark == \E text \in MarkInputs : EnterMark(text)

Next ==
    \/ Start
    \/ AddRecord
    \/ TypeMark
    \/ Display
    \/ Trend
    \/ Compare
    \/ InvalidChoice
    \/ Exit
    \/ Restart

Spec == Init /\ [][Next]_vars

\* ------------------------------------------------------------------ scenario
\* A session in which the user copies marks from a sheet, now and then
\* mistyping a line.
Text60 == <<"6", "0">>
Text70 == <<"7", "0">>
Text80 == <<"8", "0">>
Text90 == <<"9", "0">>

Sheet == ("Alice" :> <<Text70, Text80, Text90, Text60, Text100>>)
         @@ ("Bob" :> <<Text100, Text100, Text100, Text100, Text100>>)

SheetInputs(name, j) == {Sheet[name][j], Text101, TextAbc}

TypeSheetMark ==
    /\ pc = "prompt"
    /\ \E text \in SheetInputs(student_name, Len(new_marks) + 1) : EnterMark(text)

NextScenario ==
    \/ Start
    \/ AddRecord
    \/ TypeSheetMark
    \/ Display
    \/ Trend
    \/ Compare
    \/ InvalidChoice
    \/ Exit
    \/ Restart

SpecScenario == Init /\ [][NextScenario]_vars

\* ------------------------------------------------------------------ claims
\* Reading a table without going through tolist.
NRows(m) == IF Len(m.shape) = 1 THEN 0 ELSE m.shape[1]

RowAt(m, i) == [j \in 1..m.shape[2] |-> m.data[(i - 1) * m.shape[2] + j]]

FirstRowsKept(old, new) ==
    /\ NRows(new) >= NRows(old)
    /\ \A i \in 1..NRows(old) : RowAt(new, i) = RowAt(old, i)

\* A step in which add_record appends and returns.
AddReturned == pc \in {"menu", "prompt"} /\ pc' = "menu" /\ out'.op = "add"

\* The row add_record was given: the marks accepted so far and the one typed last.
EnteredRow == IF pc = "prompt" THEN Append(new_marks, IntOf(typed')) ELSE <<>>

\* C1: round-trip law.  When the program starts on a file that save_data wrote,
\* initialize_data returns the subjects, students and marks (same shape, same
\* entries in the same order) that were passed to that save_data.
C1_RoundTrip ==
    [][(pc = "start" /\ pc' = "menu" /\ file.kind = "json" /\ lastSaved.set)
         => /\ subjects' = lastSaved.subjects
            /\ students' = lastSaved.students
            /\ marks' = lastSaved.marks]_vars

\* C1 witness: a dataset with records in it has been saved and loaded again.
C1_Witness ==
    /\ pc = "menu" /\ loadedFrom = "json" /\ lastSaved.set
    /\ Len(students) = 2 /\ NRows(marks) = 2 /\ marks.shape[2] = 5
    /\ marks = lastSaved.marks

\* C2: initialize_data never raises whatever the file holds (a failing write of
\* the defaults aside), and on a file that is absent or not the expected
\* document it returns the default subjects, no student and the empty table.
C2_LoadNeverRaises ==
    /\ (pc = "crashed" /\ raised.in = "initialize_data") => raised.exc = "OSError"
    /\ (pc = "menu" /\ loadedFrom \in {"absent", "garbage"})
          => /\ subjects = <<"English", "Maths", "Science", "Social", "History">>
             /\ students = <<>>
             /\ marks = EmptyArray

\* C3: started on a missing file, initialize_data returns the five default
\* subjects, no student and the empty table, and by then the file exists and
\* holds exactly that state.
C3_MissingFileDefaults ==
    [][(pc = "start" /\ file.kind = "absent" /\ pc' = "menu")
         => /\ subjects' = <<"English", "Maths", "Science", "Social", "History">>
            /\ students' = <<>>
            /\ marks' = EmptyArray
            /\ file'.kind = "json"
            /\ file'.has = {"subjects", "students", "marks"}
            /\ file'.subjects = subjects'
            /\ file'.students = <<>>
            /\ file'.marks = <<>>]_vars

\* C3 witness: the menu is reached right after a start on a missing file.
C3_Witness ==
    /\ pc = "menu" /\ loadedFrom = "absent" /\ file.kind = "json"
    /\ Len(subjects) = 5 /\ students = <<>>

\* C4: add_record on R students and an R-row table appends: R+1 students, the
\* old names first and the entered name last; R+1 rows of len(subjects)
\* entries, the old rows first and the entered row last.
C4_AddAppends ==
    [][AddReturned
         => /\ Len(students') = Len(students) + 1
            /\ SubSeq(students', 1, Len(students)) = students
            /\ (pc = "prompt" => students'[Len(students')] = student_name)
            /\ marks'.shape = <<Len(students) + 1, Len(subjects)>>
            /\ FirstRowsKept(marks, marks')
            /\ RowAt(marks', Len(students) + 1) = EnteredRow]_vars

\* C4 restricted to a subject list that is not empty.
C4_AddAppendsWithSubjects ==
    [][(AddReturned /\ subjects # <<>>)
         => /\ Len(students') = Len(students) + 1
            /\ SubSeq(students', 1, Len(students)) = students
            /\ students'[Len(students')] = student_name
            /\ marks'.shape = <<Len(students) + 1, Len(subjects)>>
            /\ FirstRowsKept(marks, marks')
            /\ RowAt(marks', Len(students) + 1) = EnteredRow]_vars

\* C5: rectangular invariant.  At the menu and at every mark prompt the table
\* has one row per student, each row has one entry per subject, and every
\* entry is an integer in 0..100.
C5_Rectangular ==
    pc \in {"menu", "prompt"}
      => /\ NRows(marks) = Len(students)
         /\ (NRows(marks) > 0 => marks.shape[2] = Len(subjects))
         /\ Len(marks.data) = Len(students) * Len(subjects)
         /\ \A k \in 1..Len(marks.data) : marks.data[k] \in 0..100

\* C5 restricted to a subject list that is not empty.
C5_RectangularWithSubjects ==
    (pc \in {"menu", "prompt"} /\ subjects # <<>>)
      => /\ NRows(marks) = Len(students)
         /\ (NRows(marks) > 0 => marks.shape[2] = Len(subjects))
         /\ Len(marks.data) = Len(students) * Len(subjects)
         /\ \A k \in 1..Len(marks.data) : marks.data[k] \in 0..100

\* What the claim calls a value to reject: not an integer, below 0 or above 100.
Rejectable(text) == ~IsIntText(text) \/ IntOf(text) < 0 \/ IntOf(text) > 100

FileMarksInRange ==
    file.kind = "json" =>
       \A i \in 1..Len(file.marks) : \A j \in 1..Len(file.marks[i]) :
          file.marks[i][j] \in 0..100

\* C6: at a mark prompt a line that is no integer, or is below 0 or above 100,
\* is rejected and the same subject is asked again with nothing changed; a
\* valid line is taken for the current subject and the next subject is asked;
\* only the valid line for the last subject appends the record, whose row is
\* the accepted values in subject order.  No rejected value is ever in the
\* table or the file.
C6_RetryUntilValid ==
    /\ [](/\ \A k \in 1..Len(marks.data) : marks.data[k] \in 0..100
          /\ \A k \in 1..Len(new_marks) : new_marks[k] \in 0..100
          /\ FileMarksInRange)
    /\ [][pc = "prompt"
            => IF Rejectable(typed')
               THEN /\ pc' = "prompt"
                    /\ out'.op = "reject"
                    /\ UNCHANGED <<new_marks, student_name, students, marks, file>>
               ELSE IF Len(new_marks) + 1 < Len(subjects)
               THEN /\ pc' = "prompt"
                    /\ new_marks' = Append(new_marks, IntOf(typed'))
                    /\ UNCHANGED <<student_name, students, marks, file>>
               ELSE /\ pc' \in {"menu", "crashed"}
                    /\ (pc' = "menu"
                          => /\ students' = Append(students, student_name)
                             /\ RowAt(marks', NRows(marks'))
                                  = Append(new_marks, IntOf(typed'))
                             /\ file'.marks[Len(file'.marks)]
                                  = Append(new_marks, IntOf(typed')))]_vars

\* C6 witness: an out-of-range line has just been rejected at a prompt that
\* already holds an accepted mark.
C6_Witness ==
    /\ pc = "prompt" /\ out.op = "reject" /\ typed = Text101
    /\ Len(new_marks) >= 1

\* C7: at the menu the file decodes to exactly the subjects, students and
\* marks in memory; display, trend, comparison and an invalid choice change
\* neither the dataset nor the file.
C7_FileInStep ==
    /\ [](pc = "menu"
            => /\ file.kind = "json"
               /\ file.has = {"subjects", "students", "marks"}
               /\ file.subjects = subjects
               /\ file.students = students
               /\ Len(file.marks) = NRows(marks)
               /\ \A i \in 1..NRows(marks) : file.marks[i] = RowAt(marks, i))
    /\ [][(pc = "menu" /\ out'.op \in {"display", "trend", "compare", "invalid"})
            => UNCHANGED <<file, subjects, students, marks>>]_vars

\* C7 witness: the table is displayed after two records were added and saved.
C7_Witness ==
    /\ pc = "menu" /\ out.op = "display" /\ Len(students) = 2
    /\ lastSaved.set /\ lastSaved.students = students

\* C8: when save_data fails inside add_record the program ends, and the file
\* still holds the complete dataset of the last successful save, that is the
\* dataset as it was before this record.
C8_FailedSaveKeepsFile ==
    (pc = "crashed" /\ raised.in = "add_record")
      => /\ raised.exc = "OSError"
         /\ file.kind = "json"
         /\ file.has = {"subjects", "students", "marks"}
         /\ file.subjects = subjects
         /\ file.students = SubSeq(students, 1, Len(students) - 1)

\* C9: no mean over zero entries.  display_results reports no data exactly
\* when there is no student and otherwise averages only rows with an entry;
\* subject_comparison averages only columns with an entry and reports no data
\* when the table has no row.
C9_NoEmptyMean ==
    /\ out.op = "display"
         => /\ (students = <<>> => out.msg = "No data available.")
            /\ \A i \in 1..Len(out.rows) : out.rows[i].avg.den >= 1
    /\ out.op = "compare"
         => /\ (NRows(marks) = 0 => out.msg = "No data available for comparison.")
            /\ \A j \in 1..Len(out.rows) : out.rows[j].avg.den >= 1

\* C9 restricted to a subject list that is not empty.
C9_NoEmptyMeanWithSubjects ==
    subjects # <<>> => C9_NoEmptyMean

RECURSIVE SumTo(_, _)
SumTo(f, n) == IF n = 0 THEN 0 ELSE f[n] + SumTo(f, n - 1)

RowSum(m, i) == SumTo(RowAt(m, i), m.shape[2])

ColSum(m, j) == SumTo([i \in 1..NRows(m) |-> RowAt(m, i)[j]], NRows(m))

AliceRow == <<70, 80, 90, 60, 100>>
BobRow == <<100, 100, 100, 100, 100>>

\* C10: with at least one subject, display_results shows for every student i
\* the average (sum of row i) / len(subjects), and subject_comparison uses for
\* every subject j the average (sum of column j) / (number of students).
\* Alice with 70 80 90 60 100 is shown 80.00; with Bob's five 100s added the
\* subject averages are 85 90 95 80 100.
C10_Averages ==
    /\ (out.op = "display" /\ students # <<>> /\ subjects # <<>>)
         => /\ Len(out.rows) = Len(students)
            /\ \A i \in 1..Len(students) :
                  /\ out.rows[i].name = students[i]
                  /\ out.rows[i].avg.den > 0
                  /\ out.rows[i].avg.num * Len(subjects)
                       = RowSum(marks, i) * out.rows[i].avg.den
    /\ (out.op = "compare" /\ students # <<>> /\ subjects # <<>>)
         => /\ Len(out.rows) = Len(subjects)
            /\ \A j \in 1..Len(subjects) :
                  /\ out.rows[j].name = subjects[j]
                  /\ out.rows[j].avg.den > 0
                  /\ out.rows[j].avg.num * Len(students)
                       = ColSum(marks, j) * out.rows[j].avg.den
    /\ (out.op = "display" /\ students = <<"Alice">> /\ marks.data = AliceRow)
         => /\ out.rows[1].avg.num = 80 * out.rows[1].avg.den
            /\ out.rows[1].shown = 8000
    /\ (out.op = "compare" /\ students = <<"Alice", "Bob">>
          /\ marks.data = AliceRow \o BobRow)
         => /\ [j \in 1..5 |-> out.rows[j].shown] = <<8500, 9000, 9500, 8000, 10000>>
            /\ \A j \in 1..5 :
                  out.rows[j].avg.num
                    = <<85, 90, 95, 80, 100>>[j] * out.rows[j].avg.den

\* C10 witness: the comparison has been computed for Alice and Bob.
C10_Witness ==
    /\ pc = "menu" /\ out.op = "compare" /\ students = <<"Alice", "Bob">>
    /\ marks.shape = <<2, 5>> /\ marks.data = AliceRow \o BobRow
    /\ Len(out.rows) = 5
====
